---- MODULE Spec2Model ----
(***************************************************************************)
(* Model of the multi-core job scheduler (libscheduler.c) and the ordered  *)
(* linked-list queue it is built on (libpriqueue.c).                       *)
(*                                                                         *)
(* A job_t* is modelled by the job's id (the driver hands out globally     *)
(* unique ids), the heap of live job_t structs by the function `heap`      *)
(* whose domain is the set of allocated jobs, and the linked list hanging  *)
(* off queue.m_front by the sequence `m_front` of job ids.                 *)
(***************************************************************************)
EXTENDS Integers, Sequences, FiniteSets, TLC

\* ---- bounds of the model ----
MaxCores == 2
MaxJobs == 3
MaxTime == 2
MaxRun == 3
MaxPri == 2
MaxLen == 3

\* ---- program constants ----
NULL == 0
UNSET == -1
NONE == -1
\* outcome of a call that dereferences a null pointer and traps
FAULT == -2

Schemes == {"FCFS", "SJF", "PSJF", "PRI", "PPRI", "RR"}
JobIds == 1..MaxJobs
Times == 0..MaxTime
\* a short and a long job
RunTimes == {1, MaxRun}
\* priority is read by pri and ppri alone; under the other comparators every
\* job is given priority 1
Priorities(cmp) == IF cmp \in {"pri", "ppri"} THEN 1..MaxPri ELSE {1}

VARIABLES
    scheme,           \* argument of scheduler_start_up
    num_cores,
    preemptive,
    comparer,         \* queue.comparer
    total_jobs,
    curr_time,
    waiting_time,
    response_time,
    turnaround_time,
    active_cores,     \* [0..num_cores-1 -> job id or NULL]
    m_front,          \* queue.m_front: the linked list, head first
    m_size,           \* queue.m_size
    heap,             \* live job_t structs, by job id
    used,             \* job numbers the driver has already handed out
    ran,              \* per live job: simulated time it has occupied a core
    ev                \* the last handler call: its arguments and return value

vars == <<scheme, num_cores, preemptive, comparer, total_jobs, curr_time,
          waiting_time, response_time, turnaround_time, active_cores,
          m_front, m_size, heap, used, ran, ev>>

Cores == 0..(num_cores - 1)

\* ---------------------------------------------------------------------
\* comparators (libscheduler.c:343-423); a and b are job_t structs
\* ---------------------------------------------------------------------
\* fcfs with the operands of the subtraction swapped
fcfs_swapped(a, b) ==
    IF a.id = b.id THEN 0 ELSE b.arrival_time - a.arrival_time

fcfs(a, b) ==
    IF a.id = b.id THEN 0 ELSE a.arrival_time - b.arrival_time

sjf(a, b) ==
    IF a.id = b.id THEN 0
    ELSE IF a.running_time # b.running_time
         THEN a.running_time - b.running_time
         ELSE a.arrival_time - b.arrival_time

psjf(a, b) ==
    IF a.id = b.id THEN 0
    ELSE IF a.remaining_time # b.remaining_time
         THEN a.remaining_time - b.remaining_time
         ELSE a.arrival_time - b.arrival_time

pri(a, b) ==
    IF a.id = b.id THEN 0
    ELSE IF a.priority # b.priority
         THEN a.priority - b.priority
         ELSE a.arrival_time - b.arrival_time

ppri(a, b) ==
    IF a.id = b.id THEN 0
    ELSE IF a.priority # b.priority
         THEN a.priority - b.priority
         ELSE a.arrival_time - b.arrival_time

\* rr answering "earlier" instead of "later" for two different jobs
rr_negative(a, b) ==
    IF a.id = b.id THEN 0 ELSE -1

rr(a, b) ==
    IF a.id = b.id THEN 0 ELSE 1

\* q->comparer(a, b): call through the stored function pointer
Compare(cmp, a, b) ==
    CASE cmp = "fcfs" -> fcfs(a, b)
      [] cmp = "sjf"  -> sjf(a, b)
      [] cmp = "psjf" -> psjf(a, b)
      [] cmp = "pri"  -> pri(a, b)
      [] cmp = "ppri" -> ppri(a, b)
      [] cmp = "rr"   -> rr(a, b)

\* the switch of scheduler_start_up
ComparerOf(s) ==
    CASE s = "FCFS" -> "fcfs"
      [] s = "SJF"  -> "sjf"
      [] s = "PSJF" -> "psjf"
      [] s = "PRI"  -> "pri"
      [] s = "PPRI" -> "ppri"
      [] s = "RR"   -> "rr"

\* the switch with the PRI case setting preemptive = 1 like the PPRI case
PreemptiveOf_pri_set(s) ==
    CASE s = "FCFS" -> 0
      [] s = "SJF"  -> 0
      [] s = "PSJF" -> 1
      [] s = "PRI"  -> 1
      [] s = "PPRI" -> 1
      [] s = "RR"   -> 0

PreemptiveOf(s) ==
    CASE s = "FCFS" -> 0
      [] s = "SJF"  -> 0
      [] s = "PSJF" -> 1
      [] s = "PRI"  -> 0
      [] s = "PPRI" -> 1
      [] s = "RR"   -> 0

\* ---------------------------------------------------------------------
\* libpriqueue.c
\* ---------------------------------------------------------------------
\* the while loop of priqueue_offer: i is the 1-based position of `temp`
RECURSIVE OfferWalk(_, _, _, _, _)
OfferWalk(front, ptr, h, cmp, i) ==
    IF i + 1 <= Len(front) /\ Compare(cmp, h[ptr], h[front[i + 1]]) > 0
    THEN OfferWalk(front, ptr, h, cmp, i + 1)
    ELSE i

\* priqueue_offer linking the new node at the tail whatever the comparer says
priqueue_offer_append(front, ptr, h, cmp) ==
    [front |-> Append(front, ptr), ret |-> Len(front)]

\* priqueue_offer: the list after the insertion and the value returned
priqueue_offer(front, ptr, h, cmp) ==
    IF front = <<>>
    THEN [front |-> <<ptr>>, ret |-> 0]
    ELSE IF Compare(cmp, h[ptr], h[front[1]]) <= 0
         THEN [front |-> <<ptr>> \o front, ret |-> 1]
         ELSE LET i == OfferWalk(front, ptr, h, cmp, 1)
              IN [front |-> SubSeq(front, 1, i) \o <<ptr>>
                            \o SubSeq(front, i + 1, Len(front)),
                  ret |-> i]

\* priqueue_poll that returns the head without unlinking it
priqueue_poll_no_unlink(front, size) ==
    IF front = <<>>
    THEN [front |-> front, size |-> size, ret |-> NULL]
    ELSE [front |-> front, size |-> size - 1, ret |-> front[1]]

\* priqueue_poll: list and size after the call, and the value returned
priqueue_poll(front, size) ==
    IF front = <<>>
    THEN [front |-> front, size |-> size, ret |-> NULL]
    ELSE [front |-> Tail(front), size |-> size - 1, ret |-> front[1]]

\* ---------------------------------------------------------------------
\* libscheduler.c
\* ---------------------------------------------------------------------
\* update_remaining_time charging the elapsed time to every live job
update_remaining_time_all(h, cores, n, time, now) ==
    [j \in DOMAIN h |->
        [h[j] EXCEPT !.remaining_time = @ - (time - now)]]

\* update_remaining_time: the loop over the cores
update_remaining_time(h, cores, n, time, now) ==
    [j \in DOMAIN h |->
        [h[j] EXCEPT !.remaining_time =
            @ - (time - now) * Cardinality({i \in 0..(n - 1) : cores[i] = j})]]

\* scheduler_new_job: the first loop, lowest-indexed free core or -1
RECURSIVE FindIdleCore(_, _, _)
FindIdleCore(cores, n, i) ==
    IF i >= n THEN NONE
    ELSE IF cores[i] = NULL THEN i
    ELSE FindIdleCore(cores, n, i + 1)

\* the first loop without its break: the last free core wins
LastIdleCore(cores, n) ==
    IF \E i \in 0..(n - 1) : cores[i] = NULL
    THEN CHOOSE i \in 0..(n - 1) :
            /\ cores[i] = NULL
            /\ \A k \in 0..(n - 1) : cores[k] = NULL => k <= i
    ELSE NONE

\* the first loop of scheduler_new_job, started at core 0
FirstIdleCore(cores, n) == FindIdleCore(cores, n, 0)

\* the scan stopping at the first core whose job the new job beats
ScanWorstFirst(h, cores, n, cmp, i, core, worst) ==
    LET hits == {k \in 0..(n - 1) : Compare(cmp, h[worst], h[cores[k]]) < 0}
    IN  IF hits = {} THEN [core |-> core, worst |-> worst]
        ELSE LET first == CHOOSE k \in hits : \A x \in hits : k <= x
             IN  [core |-> first, worst |-> cores[first]]

\* scheduler_new_job: the left-to-right scan of the preemptive branch
RECURSIVE ScanWorst(_, _, _, _, _, _, _)
ScanWorst(h, cores, n, cmp, i, core, worst) ==
    IF i >= n THEN [core |-> core, worst |-> worst]
    ELSE IF Compare(cmp, h[worst], h[cores[i]]) < 0
         THEN ScanWorst(h, cores, n, cmp, i + 1, i, cores[i])
         ELSE ScanWorst(h, cores, n, cmp, i + 1, core, worst)

\* the scan with the comparison turned round (> 0 for < 0)
RECURSIVE ScanWorstTurned(_, _, _, _, _, _, _)
ScanWorstTurned(h, cores, n, cmp, i, core, worst) ==
    IF i >= n THEN [core |-> core, worst |-> worst]
    ELSE IF Compare(cmp, h[worst], h[cores[i]]) > 0
         THEN ScanWorstTurned(h, cores, n, cmp, i + 1, i, cores[i])
         ELSE ScanWorstTurned(h, cores, n, cmp, i + 1, core, worst)

FindDisplacedTurned(h, cores, n, cmp, job) ==
    ScanWorstTurned(h, cores, n, cmp, 0, NONE, job)

\* the preemptive branch finding no core to take
FindDisplacedNever(h, cores, n, cmp, job) ==
    [core |-> NONE, worst |-> job]

\* the scan as scheduler_new_job starts it: worst_priority_job = job, core = -1
FindDisplaced(h, cores, n, cmp, job) ==
    ScanWorst(h, cores, n, cmp, 0, NONE, job)

\* the displaced job keeping its start_time in every case
DisplacedStartTimeKept(time, start_time) == start_time

\* start_time of the displaced job (libscheduler.c:159-161)
DisplacedStartTime(time, start_time) ==
    IF time = start_time THEN UNSET ELSE start_time

\* the dispatched job stamped with the time of the call in every case
DispatchStartTimeStamped(time, start_time) == time

\* start_time of a job taken from the queue (libscheduler.c:204-206, 239-241)
DispatchStartTime(time, start_time) ==
    IF start_time = UNSET THEN time ELSE start_time

\* the job_t built by scheduler_new_job (libscheduler.c:124-130)
NewJob(job_number, time, running_time, priority) ==
    [id |-> job_number, arrival_time |-> time, start_time |-> UNSET,
     running_time |-> running_time, remaining_time |-> running_time,
     priority |-> priority]

\* h with the struct of job j replaced (or allocated)
Store(h, j, rec) ==
    [k \in DOMAIN h \cup {j} |-> IF k = j THEN rec ELSE h[k]]

\* h after free(j)
Free(h, j) ==
    [k \in DOMAIN h \ {j} |-> h[k]]

\* ghost: time spent on a core, advanced for the jobs that hold a core
Occupy(r, cores, n, time, now) ==
    [j \in DOMAIN r |->
        IF \E i \in 0..(n - 1) : cores[i] = j THEN r[j] + (time - now) ELSE r[j]]

\* what a handler finds when it is called
Snapshot ==
    [cores |-> active_cores, front |-> m_front, size |-> m_size, heap |-> heap,
     time |-> curr_time, total_jobs |-> total_jobs, waiting |-> waiting_time,
     response |-> response_time, turnaround |-> turnaround_time]

\* record of a handler call: arguments, return value, and the state it found
Call(op, core_id, job_number, time, running_time, priority, ret) ==
    [op |-> op, core_id |-> core_id, job_number |-> job_number, time |-> time,
     running_time |-> running_time, priority |-> priority,
     ret |-> ret, old |-> Snapshot]

\* scheduler_start_up
Init ==
    /\ scheme \in Schemes
    /\ num_cores \in 1..MaxCores
    /\ preemptive = PreemptiveOf(scheme)
    /\ comparer = ComparerOf(scheme)
    /\ total_jobs = 0
    /\ curr_time = 0
    /\ waiting_time = 0
    /\ response_time = 0
    /\ turnaround_time = 0
    /\ active_cores = [i \in 0..(num_cores - 1) |-> NULL]
    /\ m_front = <<>>
    /\ m_size = 0
    /\ heap = <<>>
    /\ used = {}
    /\ ran = <<>>
    /\ ev = [op |-> "start_up", core_id |-> NONE, job_number |-> NONE,
             time |-> 0, running_time |-> NONE, priority |-> NONE,
             ret |-> NONE, old |-> Snapshot]

\* total_jobs left alone by an arrival
CountJobSkipped(n) == n

\* total_jobs++ of scheduler_new_job (libscheduler.c:123)
CountJob(n) == n + 1

\* scheduler_new_job: the state it leaves and the value it returns
NewJobResult(job_number, time, running_time, priority) ==
    LET h1 == update_remaining_time(heap, active_cores, num_cores, time, curr_time)
        h2 == Store(h1, job_number, NewJob(job_number, time, running_time, priority))
        idle == FirstIdleCore(active_cores, num_cores)
        scan == FindDisplaced(h2, active_cores, num_cores, comparer, job_number)
    IN  IF idle # NONE
        THEN [heap |-> [h2 EXCEPT ![job_number].start_time = time],
              cores |-> [active_cores EXCEPT ![idle] = job_number],
              front |-> m_front, size |-> m_size, ret |-> idle]
        ELSE IF preemptive # 0 /\ scan.core # NONE
        THEN LET w == scan.worst
                 h3 == [h2 EXCEPT ![job_number].start_time = time,
                                  ![w].start_time = DisplacedStartTime(time, @)]
             IN [heap |-> h3,
                 cores |-> [active_cores EXCEPT ![scan.core] = job_number],
                 front |-> priqueue_offer(m_front, w, h3, comparer).front,
                 size |-> m_size + 1, ret |-> scan.core]
        ELSE [heap |-> h2, cores |-> active_cores,
              front |-> priqueue_offer(m_front, job_number, h2, comparer).front,
              size |-> m_size + 1, ret |-> NONE]

scheduler_new_job(job_number, time, running_time, priority) ==
    LET r == NewJobResult(job_number, time, running_time, priority)
    IN  /\ job_number \notin used
        /\ job_number = Cardinality(used) + 1
        /\ time >= curr_time
        /\ curr_time' = time
        /\ total_jobs' = CountJob(total_jobs)
        /\ heap' = r.heap
        /\ active_cores' = r.cores
        /\ m_front' = r.front
        /\ m_size' = r.size
        /\ used' = used \cup {job_number}
        /\ ran' = Store(Occupy(ran, active_cores, num_cores, time, curr_time),
                        job_number, 0)
        /\ ev' = Call("new_job", NONE, job_number, time, running_time,
                        priority, r.ret)
        /\ UNCHANGED <<scheme, num_cores, preemptive, comparer, waiting_time,
                       response_time, turnaround_time>>

\* the waiting-time term computed from remaining_time
WaitingDeltaRemaining(time, job) == time - job.remaining_time - job.arrival_time

\* the three sums of scheduler_job_finished (libscheduler.c:195-197)
WaitingDelta(time, job) == time - job.running_time - job.arrival_time

ResponseDelta(time, job) == job.start_time - job.arrival_time

TurnaroundDelta(time, job) == time - job.arrival_time

\* scheduler_job_finished leaving the core idle whatever is waiting
JobFinishedResultIdle(core_id, job_number, time) ==
    LET h1 == update_remaining_time(heap, active_cores, num_cores, time, curr_time)
        finished_job == active_cores[core_id]
    IN  [heap |-> Free(h1, finished_job),
         cores |-> [active_cores EXCEPT ![core_id] = NULL],
         front |-> m_front, size |-> m_size, ret |-> NONE,
         finished |-> h1[finished_job]]

\* scheduler_job_finished: the state it leaves and the value it returns
JobFinishedResult(core_id, job_number, time) ==
    LET h1 == update_remaining_time(heap, active_cores, num_cores, time, curr_time)
        finished_job == active_cores[core_id]
        h2 == Free(h1, finished_job)
        p == priqueue_poll(m_front, m_size)
    IN  IF m_front # <<>>
        THEN [heap |-> [h2 EXCEPT ![p.ret].start_time = DispatchStartTime(time, @)],
              cores |-> [active_cores EXCEPT ![core_id] = p.ret],
              front |-> p.front, size |-> p.size, ret |-> p.ret,
              finished |-> h1[finished_job]]
        ELSE [heap |-> h2,
              cores |-> [active_cores EXCEPT ![core_id] = NULL],
              front |-> m_front, size |-> m_size, ret |-> NONE,
              finished |-> h1[finished_job]]

scheduler_job_finished(core_id, job_number, time) ==
    /\ core_id \in Cores
    /\ active_cores[core_id] # NULL
    /\ active_cores[core_id] = job_number
    /\ time >= curr_time
    /\ LET r == JobFinishedResult(core_id, job_number, time)
       IN  /\ curr_time' = time
           /\ waiting_time' = waiting_time + WaitingDelta(time, r.finished)
           /\ response_time' = response_time + ResponseDelta(time, r.finished)
           /\ turnaround_time' = turnaround_time + TurnaroundDelta(time, r.finished)
           /\ heap' = r.heap
           /\ active_cores' = r.cores
           /\ m_front' = r.front
           /\ m_size' = r.size
           /\ ran' = Free(Occupy(ran, active_cores, num_cores, time, curr_time),
                          job_number)
           /\ ev' = Call("job_finished", core_id, job_number, time, NONE, NONE,
                            r.ret)
    /\ UNCHANGED <<scheme, num_cores, preemptive, comparer, total_jobs, used>>

\* scheduler_quantum_expired: the state it leaves and the value it returns
QuantumExpiredResult(core_id, time) ==
    LET h1 == update_remaining_time(heap, active_cores, num_cores, time, curr_time)
        job == active_cores[core_id]
        o == priqueue_offer(m_front, job, h1, comparer)
        p == priqueue_poll(o.front, m_size + 1)
    IN  IF m_front # <<>>
        THEN [heap |-> [h1 EXCEPT ![p.ret].start_time = DispatchStartTime(time, @)],
              cores |-> [active_cores EXCEPT ![core_id] = p.ret],
              front |-> p.front, size |-> p.size, ret |-> p.ret]
        ELSE [heap |-> h1, cores |-> active_cores,
              front |-> m_front, size |-> m_size, ret |-> job]

scheduler_quantum_expired(core_id, time) ==
    /\ core_id \in Cores
    /\ active_cores[core_id] # NULL
    /\ time >= curr_time
    /\ LET r == QuantumExpiredResult(core_id, time)
       IN  /\ curr_time' = time
           /\ heap' = r.heap
           /\ active_cores' = r.cores
           /\ m_front' = r.front
           /\ m_size' = r.size
           /\ ran' = Occupy(ran, active_cores, num_cores, time, curr_time)
           /\ ev' = Call("quantum_expired", core_id, NONE, time, NONE, NONE,
                            r.ret)
    /\ UNCHANGED <<scheme, num_cores, preemptive, comparer, total_jobs,
                   waiting_time, response_time, turnaround_time, used>>

\* scheduler_average_waiting_time / _turnaround_time / _response_time: the
\* quotient sum / total_jobs as the pair of its terms, 0.0 as 0 / 1
Average(sum) ==
    IF total_jobs > 0 THEN [num |-> sum, den |-> total_jobs]
    ELSE [num |-> 0, den |-> 1]

scheduler_average_waiting_time == Average(waiting_time)

scheduler_average_turnaround_time == Average(turnaround_time)

scheduler_average_response_time == Average(response_time)

\* the driver: one handler call at a time, timestamps never decreasing, jobs
\* numbered in the order they arrive (the code compares job numbers for
\* equality only)
Arrive ==
    \E job_number \in JobIds, time \in Times,
       running_time \in RunTimes, priority \in Priorities(comparer) :
        scheduler_new_job(job_number, time, running_time, priority)

Finish ==
    \E core_id \in 0..(MaxCores - 1), job_number \in JobIds, time \in Times :
        scheduler_job_finished(core_id, job_number, time)

Expire ==
    \E core_id \in 0..(MaxCores - 1), time \in Times :
        scheduler_quantum_expired(core_id, time)

Next == Arrive \/ Finish \/ Expire

Spec == Init /\ [][Next]_vars

\* the loop of scheduler_clean_up: poll and free while m_size > 0; a poll
\* that finds the list empty returns NULL and leaves m_size as it is
RECURSIVE Drain(_, _, _)
Drain(front, size, h) ==
    IF size > 0 /\ front # <<>>
    THEN LET p == priqueue_poll(front, size)
         IN  Drain(p.front, p.size, Free(h, p.ret))
    ELSE [front |-> front, size |-> size, heap |-> h]

\* scheduler_clean_up; it returns once m_size > 0 is false
scheduler_clean_up ==
    LET r == Drain(m_front, m_size, heap)
    IN  /\ r.size <= 0
        /\ m_front' = r.front
        /\ m_size' = r.size
        /\ heap' = r.heap
        /\ ran' = [j \in DOMAIN r.heap |-> ran[j]]
        /\ ev' = Call("clean_up", NONE, NONE, curr_time, NONE, NONE, NONE)
        /\ UNCHANGED <<scheme, num_cores, preemptive, comparer, total_jobs,
                       curr_time, waiting_time, response_time,
                       turnaround_time, active_cores, used>>

\* the driver calls scheduler_clean_up last (libscheduler.c:295)
NextShutdown ==
    \/ ev.op # "clean_up" /\ Next
    \/ ev.op # "clean_up" /\ scheduler_clean_up

SpecShutdown == Init /\ [][NextShutdown]_vars

\* ---------------------------------------------------------------------
\* the queue on its own (libpriqueue.c), holding pointers to job_t structs
\* of a fixed pool; the same pointer may be stored more than once
\* ---------------------------------------------------------------------
\* the second loop of priqueue_remove: i is the 1-based position of temp1
RECURSIVE RemoveWalk(_, _, _, _, _, _)
RemoveWalk(front, ptr, h, cmp, i, removed) ==
    IF i <= Len(front) /\ i + 1 <= Len(front)
    THEN IF Compare(cmp, h[front[i + 1]], h[ptr]) = 0
         THEN RemoveWalk(SubSeq(front, 1, i) \o SubSeq(front, i + 2, Len(front)),
                         ptr, h, cmp, i + 1, removed + 1)
         ELSE RemoveWalk(front, ptr, h, cmp, i + 1, removed)
    ELSE [front |-> front, removed |-> removed]

\* the first loop of priqueue_remove: matching nodes at the head
RECURSIVE RemoveHeads(_, _, _, _, _)
RemoveHeads(front, ptr, h, cmp, removed) ==
    IF front # <<>> /\ Compare(cmp, h[front[1]], h[ptr]) = 0
    THEN RemoveHeads(Tail(front), ptr, h, cmp, removed + 1)
    ELSE [front |-> front, removed |-> removed]

\* priqueue_remove: list and size after the call, and the value returned
priqueue_remove(front, size, ptr, h, cmp) ==
    LET a == RemoveHeads(front, ptr, h, cmp, 0)
        b == RemoveWalk(a.front, ptr, h, cmp, 1, a.removed)
    IN  [front |-> b.front, size |-> size - b.removed, ret |-> b.removed]

\* priqueue_at reads temp->value after `index` steps along the list: it
\* dereferences NULL when the list has no node at that position
AtDereferencesNull(front, size, index) ==
    index <= size /\ index >= Len(front)

\* priqueue_at where it is defined
priqueue_at(front, size, index) ==
    IF index > size THEN NULL ELSE front[index + 1]

\* priqueue_remove_at reads temp1->next->next after index - 1 steps
RemoveAtDereferencesNull(front, size, index) ==
    front # <<>> /\ index <= size /\ index # 0 /\ index >= Len(front)

\* priqueue_remove_at where it is defined
priqueue_remove_at(front, size, index) ==
    IF front = <<>> \/ index > size
    THEN [front |-> front, size |-> size, ret |-> NULL]
    ELSE [front |-> SubSeq(front, 1, index) \o SubSeq(front, index + 2, Len(front)),
          size |-> size - 1, ret |-> front[index + 1]]

\* priqueue_destroy: every node freed, m_front = NULL, m_size not assigned
priqueue_destroy(front, size) ==
    [front |-> <<>>, size |-> size]

\* record of a queue call: arguments, value returned, whether the call ran
\* into undefined behaviour, and the list and size it found
QCall(op, ptr, index, ret, ub) ==
    [op |-> op, ptr |-> ptr, index |-> index, ret |-> ret, ub |-> ub,
     old |-> [front |-> m_front, size |-> m_size]]

\* the key fields of the pool's structs, as far as the comparator reads them
QKeys(cmp) ==
    [arrival_time : {0, 1},
     running_time : IF cmp \in {"sjf", "psjf"} THEN RunTimes ELSE {1},
     priority : Priorities(cmp)]

\* priqueue_init with one of the six comparators
QInit ==
    /\ scheme \in Schemes
    /\ comparer = ComparerOf(scheme)
    /\ m_front = <<>>
    /\ m_size = 0
    /\ \E k \in [JobIds -> QKeys(comparer)] :
          heap = [j \in JobIds |->
                    [id |-> j, arrival_time |-> k[j].arrival_time,
                     start_time |-> UNSET, running_time |-> k[j].running_time,
                     remaining_time |-> k[j].running_time,
                     priority |-> k[j].priority]]
    /\ ev = [op |-> "init", ptr |-> NULL, index |-> NONE, ret |-> NONE,
             ub |-> FALSE, old |-> [front |-> <<>>, size |-> 0]]
    /\ num_cores = 1
    /\ preemptive = PreemptiveOf(scheme)
    /\ total_jobs = 0
    /\ curr_time = 0
    /\ waiting_time = 0
    /\ response_time = 0
    /\ turnaround_time = 0
    /\ active_cores = [i \in {0} |-> NULL]
    /\ used = {}
    /\ ran = <<>>

\* the scheduler's globals play no part in the queue's operations
QFrame ==
    UNCHANGED <<scheme, num_cores, preemptive, comparer, total_jobs, curr_time,
                waiting_time, response_time, turnaround_time, active_cores,
                heap, used, ran>>

\* the queue can be used: it was not destroyed and no call has gone wrong
QUsable == ev.op # "destroy" /\ ~ev.ub

QOffer(ptr) ==
    /\ QUsable
    /\ Len(m_front) < MaxLen
    /\ LET o == priqueue_offer(m_front, ptr, heap, comparer)
       IN  /\ m_front' = o.front
           /\ m_size' = m_size + 1
           /\ ev' = QCall("offer", ptr, NONE, o.ret, FALSE)
    /\ QFrame

QPoll ==
    /\ QUsable
    /\ LET p == priqueue_poll(m_front, m_size)
       IN  /\ m_front' = p.front
           /\ m_size' = p.size
           /\ ev' = QCall("poll", NULL, NONE, p.ret, FALSE)
    /\ QFrame

QAt(index) ==
    /\ QUsable
    /\ IF AtDereferencesNull(m_front, m_size, index)
       THEN \E r \in {FAULT, NULL} \cup JobIds :
               ev' = QCall("at", NULL, index, r, TRUE)
       ELSE ev' = QCall("at", NULL, index,
                        priqueue_at(m_front, m_size, index), FALSE)
    /\ UNCHANGED <<m_front, m_size>>
    /\ QFrame

QRemove(ptr) ==
    /\ QUsable
    /\ LET x == priqueue_remove(m_front, m_size, ptr, heap, comparer)
       IN  /\ m_front' = x.front
           /\ m_size' = x.size
           /\ ev' = QCall("remove", ptr, NONE, x.ret, FALSE)
    /\ QFrame

QRemoveAt(index) ==
    /\ QUsable
    /\ IF RemoveAtDereferencesNull(m_front, m_size, index)
       THEN /\ \E r \in {FAULT, NULL} \cup JobIds :
                  ev' = QCall("remove_at", NULL, index, r, TRUE)
            /\ UNCHANGED <<m_front, m_size>>
       ELSE LET x == priqueue_remove_at(m_front, m_size, index)
            IN  /\ m_front' = x.front
                /\ m_size' = x.size
                /\ ev' = QCall("remove_at", NULL, index, x.ret, FALSE)
    /\ QFrame

QDestroy ==
    /\ QUsable
    /\ LET d == priqueue_destroy(m_front, m_size)
       IN  /\ m_front' = d.front
           /\ m_size' = d.size
           /\ ev' = QCall("destroy", NULL, NONE, NONE, FALSE)
    /\ QFrame

QNext ==
    \/ \E ptr \in JobIds : QOffer(ptr)
    \/ QPoll
    \/ \E index \in 0..(MaxLen + 1) : QAt(index)
    \/ \E ptr \in JobIds : QRemove(ptr)
    \/ \E index \in 0..(MaxLen + 1) : QRemoveAt(index)
    \/ QDestroy

QSpec == QInit /\ [][QNext]_vars

\* ---------------------------------------------------------------------
\* vocabulary of the properties
\* ---------------------------------------------------------------------
Range(f) == {f[x] : x \in DOMAIN f}

CoresOf(j) == {i \in Cores : active_cores[i] = j}

PositionsOf(j) == {p \in 1..Len(m_front) : m_front[p] = j}

Live == DOMAIN heap

Finished == used \ Live

\* the last call found every core Busy / some core Idle
OldAllBusy == \A i \in Cores : ev.old.cores[i] # NULL

OldIdleCores == {i \in Cores : ev.old.cores[i] = NULL}

\* the struct of a job that was running when the last call came in, with its
\* remaining_time refreshed to the time of the call
Refreshed(j) ==
    [ev.old.heap[j] EXCEPT !.remaining_time = @ - (ev.time - ev.old.time)]

\* the job the last scheduler_new_job call was given, as the call built it
Arrived ==
    [id |-> ev.job_number, arrival_time |-> ev.time, start_time |-> UNSET,
     running_time |-> ev.running_time, remaining_time |-> ev.running_time,
     priority |-> ev.priority]

\* the new job is strictly better than the job that was running on core i
BeatsCore(i) == Compare(comparer, Arrived, Refreshed(ev.old.cores[i])) < 0

\* seq with the element at position p taken out
Without(seq, p) == SubSeq(seq, 1, p - 1) \o SubSeq(seq, p + 1, Len(seq))

\* C1: every job that has arrived and not finished is held in exactly one
\* place, one core slot or one position of the waiting list; a finished job
\* is held nowhere, and nothing but live jobs is held.
SingleOwner ==
    /\ \A j \in JobIds :
          Cardinality(CoresOf(j)) + Cardinality(PositionsOf(j))
              = IF j \in used /\ j \notin Finished THEN 1 ELSE 0
    /\ \A i \in Cores : active_cores[i] \in Live \cup {NULL}
    /\ \A p \in 1..Len(m_front) : m_front[p] \in Live

\* a quantum expiry has just swapped two jobs while a third one has finished
SingleOwnerWitness ==
    /\ ev.op = "quantum_expired"
    /\ ev.ret # ev.old.cores[ev.core_id]
    /\ ev.old.cores[ev.core_id] \in Range(m_front)
    /\ Finished # {}

\* C2: under PSJF and PPRI, an arrival that finds every core Busy and is
\* strictly better than a running job (remaining times refreshed) returns a
\* core c, holds c with start_time = time, the job it found on c waits, and
\* the other cores keep their jobs.
PreemptiveArrival ==
    (/\ ev.op = "new_job"
     /\ scheme \in {"PSJF", "PPRI"}
     /\ OldAllBusy
     /\ \E i \in Cores : BeatsCore(i))
    => /\ ev.ret \in Cores
       /\ active_cores[ev.ret] = ev.job_number
       /\ heap[ev.job_number].start_time = ev.time
       /\ ev.old.cores[ev.ret] \in Range(m_front)
       /\ \A i \in Cores \ {ev.ret} : active_cores[i] = ev.old.cores[i]

\* a preemption on a 2-core system where only one running job was beaten
PreemptiveArrivalWitness ==
    /\ ev.op = "new_job"
    /\ scheme \in {"PSJF", "PPRI"}
    /\ num_cores = 2
    /\ OldAllBusy
    /\ \E i \in Cores : BeatsCore(i)
    /\ \E i \in Cores : ~BeatsCore(i)
    /\ ev.ret \in Cores

\* C3: under FCFS, SJF, PRI and RR an arrival never changes the job of a
\* Busy core; an arrival that finds every core Busy, under those four or
\* under PSJF/PPRI when it beats no running job, returns -1, leaves the core
\* table as it was and waits with start_time unset.
NonPreemptiveArrival ==
    ev.op = "new_job" =>
      /\ scheme \in {"FCFS", "SJF", "PRI", "RR"} =>
            \A i \in Cores :
               ev.old.cores[i] # NULL => active_cores[i] = ev.old.cores[i]
      /\ (/\ OldAllBusy
          /\ \/ scheme \in {"FCFS", "SJF", "PRI", "RR"}
             \/ \A i \in Cores : ~BeatsCore(i))
         => /\ ev.ret = NONE
            /\ active_cores = ev.old.cores
            /\ \E p \in 1..Len(m_front) :
                  /\ m_front[p] = ev.job_number
                  /\ Without(m_front, p) = ev.old.front
            /\ heap[ev.job_number].start_time = UNSET

\* a job that would win under the comparator arrives under a discipline that
\* does not preempt, and waits
NonPreemptiveArrivalWitness ==
    /\ ev.op = "new_job"
    /\ scheme \in {"SJF", "PRI"}
    /\ OldAllBusy
    /\ \E i \in Cores : BeatsCore(i)
    /\ ev.ret = NONE

\* a job arrives under a preemptive discipline, beats nobody, and waits
NonPreemptiveArrivalWitnessPre ==
    /\ ev.op = "new_job"
    /\ scheme \in {"PSJF", "PPRI"}
    /\ OldAllBusy
    /\ ev.ret = NONE

\* C4: an arrival that finds an Idle core takes the lowest-indexed Idle core
\* with start_time = time and returns its index; the other cores and the
\* waiting list are as they were.
IdleCoreAssignment ==
    (ev.op = "new_job" /\ OldIdleCores # {}) =>
      LET c == CHOOSE i \in OldIdleCores : \A k \in OldIdleCores : i <= k
      IN  /\ ev.ret = c
          /\ active_cores = [ev.old.cores EXCEPT ![c] = ev.job_number]
          /\ heap[ev.job_number].start_time = ev.time
          /\ m_front = ev.old.front

\* both cores were Idle and core 0 was taken; or core 0 was Busy and core 1
\* was taken
IdleCoreAssignmentWitness ==
    /\ ev.op = "new_job"
    /\ num_cores = 2
    /\ OldIdleCores = {0, 1}
    /\ ev.ret = 0

\* C5: job_finished frees the job of core_id; a non-empty waiting list gives
\* its head to core_id, with start_time = time only if it was unset, and the
\* head's id is returned; an empty one leaves core_id Idle and returns -1.
\* The other cores keep their jobs.
DispatchOnCompletion ==
    ev.op = "job_finished" =>
      LET done == ev.old.cores[ev.core_id]
      IN  /\ done = ev.job_number
          /\ done \notin Live
          /\ CoresOf(done) = {} /\ PositionsOf(done) = {}
          /\ IF ev.old.front # <<>>
             THEN LET head == ev.old.front[1]
                  IN  /\ ev.ret = head
                      /\ m_front = Tail(ev.old.front)
                      /\ active_cores = [ev.old.cores EXCEPT ![ev.core_id] = head]
                      /\ heap[head].start_time =
                            IF ev.old.heap[head].start_time = UNSET
                            THEN ev.time
                            ELSE ev.old.heap[head].start_time
             ELSE /\ ev.ret = NONE
                  /\ m_front = <<>>
                  /\ active_cores = [ev.old.cores EXCEPT ![ev.core_id] = NULL]

\* a completion has dispatched a job that had already started earlier and
\* kept its start_time, with a second job still waiting
DispatchOnCompletionWitness ==
    /\ ev.op = "job_finished"
    /\ Len(ev.old.front) = 2
    /\ ev.old.heap[ev.old.front[1]].start_time # UNSET
    /\ ev.old.heap[ev.old.front[1]].start_time < ev.time
    /\ ev.ret = ev.old.front[1]

\* C6: under RR a quantum expiry that finds jobs waiting gives the core to
\* the head of the waiting list and sends the expiring job to its tail; with
\* one core and one waiting job the two jobs swap on every expiry. No event
\* moves a waiting job back in the list, and every such expiry moves each
\* waiting job one place forward, so a job behind k-1 others holds a core
\* after at most k expiries.
RoundRobinRotation ==
    scheme = "RR" =>
      /\ (ev.op = "quantum_expired" /\ ev.old.front # <<>>) =>
            LET cur == ev.old.cores[ev.core_id]
                head == ev.old.front[1]
            IN  /\ ev.ret = head
                /\ head # cur
                /\ active_cores = [ev.old.cores EXCEPT ![ev.core_id] = head]
                /\ m_front = Append(Tail(ev.old.front), cur)
                /\ (num_cores = 1 /\ Len(ev.old.front) = 1) =>
                      /\ active_cores[0] = head
                      /\ m_front = <<cur>>
      /\ \A p \in 1..Len(ev.old.front) :
            LET j == ev.old.front[p]
            IN  IF ev.op = "start_up" THEN TRUE
                ELSE IF ev.op = "new_job"
                THEN p <= Len(m_front) /\ m_front[p] = j
                ELSE IF p = 1
                THEN CoresOf(j) # {} /\ PositionsOf(j) = {}
                ELSE m_front[p - 1] = j

\* one core, two jobs waiting: the third expiry in a row has just given the
\* core back to the job that held it first
RoundRobinRotationWitness ==
    /\ scheme = "RR"
    /\ num_cores = 1
    /\ ev.op = "quantum_expired"
    /\ Len(ev.old.front) = 2
    /\ Len(m_front) = 2
    /\ active_cores[0] = 1
    /\ m_front = <<2, 3>>
    /\ \A j \in Live : heap[j].start_time # UNSET

\* C7: under FCFS no arrival or completion puts a job on a core while a job
\* that arrived earlier is still waiting; on one core no job completes while
\* a job that arrived earlier is still in the system.
FcfsOrder ==
    (scheme = "FCFS" /\ ev.op \in {"new_job", "job_finished"}) =>
      /\ \A i \in Cores :
            (active_cores[i] # NULL /\ active_cores[i] # ev.old.cores[i]) =>
               \A p \in 1..Len(m_front) :
                  heap[m_front[p]].arrival_time
                     >= heap[active_cores[i]].arrival_time
      /\ (ev.op = "job_finished" /\ num_cores = 1) =>
            \A j \in Live :
               heap[j].arrival_time >= ev.old.heap[ev.job_number].arrival_time

\* one core: the first of three jobs that arrived at three different times
\* completes and the second one is dispatched ahead of the third
FcfsOrderWitness ==
    /\ scheme = "FCFS"
    /\ num_cores = 1
    /\ ev.op = "job_finished"
    /\ Len(m_front) = 1
    /\ active_cores[0] # NULL
    /\ ev.old.heap[ev.job_number].arrival_time
          < heap[active_cores[0]].arrival_time
    /\ heap[active_cores[0]].arrival_time < heap[m_front[1]].arrival_time

\* C8: the remaining_time of every unfinished job is its total run time
\* minus the time it has occupied a core; a job that was waiting when the
\* last call came in and still waits has the remaining_time it had.
RemainingTimeBookkeeping ==
    /\ \A j \in Live :
          heap[j].remaining_time = heap[j].running_time - ran[j]
    /\ \A j \in Range(m_front) \cap Range(ev.old.front) :
          heap[j].remaining_time = ev.old.heap[j].remaining_time

\* PSJF: a short job has preempted a long one that had run for a while, and
\* another job was waiting over a time in which the clock moved
RemainingTimeBookkeepingWitness ==
    /\ scheme = "PSJF"
    /\ ev.op = "new_job"
    /\ OldAllBusy
    /\ ev.ret \in Cores
    /\ ran[ev.old.cores[ev.ret]] >= 1
    /\ ev.old.cores[ev.ret] \in Range(m_front)
    /\ ev.time > ev.old.time

\* C9: a job displaced by an arrival at time t has its start_time unset
\* exactly if it had started at t, and keeps its start_time otherwise; a
\* waiting job that has a start_time keeps it when job_finished or
\* quantum_expired puts it back on a core.
DisplacedStartTimeRule ==
    /\ (ev.op = "new_job" /\ OldAllBusy /\ ev.ret \in Cores) =>
          LET w == ev.old.cores[ev.ret]
          IN  /\ heap[w].start_time = UNSET
                    <=> ev.old.heap[w].start_time = ev.time
              /\ ev.old.heap[w].start_time # ev.time =>
                    heap[w].start_time = ev.old.heap[w].start_time
    /\ (ev.op \in {"job_finished", "quantum_expired"} /\ ev.old.front # <<>>) =>
          \A j \in Range(ev.old.front) :
             (CoresOf(j) # {} /\ ev.old.heap[j].start_time # UNSET) =>
                heap[j].start_time = ev.old.heap[j].start_time

\* a job that arrived earlier and was dispatched at time t is displaced by an
\* arrival at the same t and waits with its start_time unset again
DisplacedStartTimeRuleWitness ==
    /\ ev.op = "new_job"
    /\ OldAllBusy
    /\ ev.ret \in Cores
    /\ ev.old.heap[ev.old.cores[ev.ret]].arrival_time < ev.time
    /\ ev.old.heap[ev.old.cores[ev.ret]].start_time = ev.time
    /\ heap[ev.old.cores[ev.ret]].start_time = UNSET

\* a job displaced after it had run is dispatched again and keeps its
\* start_time
RedispatchWitness ==
    /\ ev.op = "job_finished"
    /\ preemptive = 1
    /\ ev.ret # NONE
    /\ ev.old.heap[ev.ret].start_time # UNSET
    /\ heap[ev.ret].start_time < ev.time

\* C10: job_finished adds time - running_time - arrival_time to waiting_time,
\* start_time - arrival_time to response_time and time - arrival_time to
\* turnaround_time, from the struct of the job on core_id; the other handlers
\* leave the three sums alone.
StatisticsAccrual ==
    /\ ev.op = "job_finished" =>
          LET job == ev.old.heap[ev.old.cores[ev.core_id]]
          IN  /\ waiting_time = ev.old.waiting
                    + (ev.time - job.running_time - job.arrival_time)
              /\ response_time = ev.old.response
                    + (job.start_time - job.arrival_time)
              /\ turnaround_time = ev.old.turnaround
                    + (ev.time - job.arrival_time)
    /\ ev.op \in {"new_job", "quantum_expired"} =>
          /\ waiting_time = ev.old.waiting
          /\ response_time = ev.old.response
          /\ turnaround_time = ev.old.turnaround

\* a job that waited before it started has completed, and every sum grew
StatisticsAccrualWitness ==
    /\ ev.op = "job_finished"
    /\ waiting_time > ev.old.waiting
    /\ response_time > ev.old.response
    /\ turnaround_time > ev.old.turnaround
    /\ ev.old.waiting > 0

\* C11 as stated: the count the averages divide by is the number of
\* job_finished calls made so far, and an arrival does not change it.
CompletedJobCount ==
    /\ total_jobs = Cardinality(Finished)
    /\ ev.op \in {"new_job", "quantum_expired"} =>
          total_jobs = ev.old.total_jobs

\* C11 as the code has it: total_jobs, the count the averages divide by, is
\* incremented once by every job_arrived call and left alone by job_finished
\* and quantum_expired, so it is the number of arrivals so far; it is the
\* number of finished jobs whenever no arrived job is unfinished.
ArrivedJobCount ==
    /\ total_jobs = Cardinality(used)
    /\ ev.op = "new_job" => total_jobs = ev.old.total_jobs + 1
    /\ ev.op \in {"job_finished", "quantum_expired"} =>
          total_jobs = ev.old.total_jobs
    /\ Live = {} => total_jobs = Cardinality(Finished)
    /\ scheduler_average_waiting_time.den = IF used = {} THEN 1 ELSE total_jobs

\* two jobs have arrived, one has finished, and the last call was a
\* completion that left a job in the system
ArrivedJobCountWitness ==
    /\ ev.op = "job_finished"
    /\ Cardinality(used) = 2
    /\ Cardinality(Finished) = 1
    /\ total_jobs = 2

\* C12: once scheduler_clean_up has returned, every core slot holds no job
\* and the waiting list is empty with size 0.
ShutdownDrainsEverything ==
    ev.op = "clean_up" =>
      /\ \A i \in Cores : active_cores[i] = NULL
      /\ m_front = <<>>
      /\ m_size = 0
      /\ Live = {}

\* ---------------------------------------------------------------------
\* C13 as stated: under whichever comparator the queue was initialised
\* with, the elements read by priqueue_at at 0, 1, ..., size-1 never
\* decrease: the comparator applied to each element and its successor is
\* <= 0, after insertions and after removals alike.
\* ---------------------------------------------------------------------
MonotonicOrder ==
    ev.op # "destroy" =>
      \A i \in 0..(m_size - 2) :
         Compare(comparer, heap[priqueue_at(m_front, m_size, i)],
                           heap[priqueue_at(m_front, m_size, i + 1)]) <= 0

\* C13: under fcfs, sjf, psjf, pri and ppri the elements read by
\* priqueue_at at 0, 1, ..., size-1 never decrease under the comparator,
\* after every insertion and every removal.  Under rr, which answers
\* "later" for any two different jobs, an inserted job that is not already
\* stored is put behind every stored element, so the queue keeps the order
\* of insertion.
OrderedQueue ==
    /\ (comparer # "rr" /\ ev.op # "destroy") =>
         \A i \in 0..(m_size - 2) :
            Compare(comparer, heap[priqueue_at(m_front, m_size, i)],
                              heap[priqueue_at(m_front, m_size, i + 1)]) <= 0
    /\ (comparer = "rr" /\ ev.op = "offer"
          /\ ev.ptr \notin Range(ev.old.front)) =>
         m_front = Append(ev.old.front, ev.ptr)

\* an insertion between two stored elements: strictly after the first,
\* strictly before the last
OrderedQueueWitness ==
    /\ comparer = "sjf"
    /\ ev.op = "offer"
    /\ Len(m_front) = 3
    /\ m_front[2] = ev.ptr
    /\ Compare(comparer, heap[m_front[1]], heap[m_front[2]]) < 0
    /\ Compare(comparer, heap[m_front[2]], heap[m_front[3]]) < 0

\* ---------------------------------------------------------------------
\* C14 as stated: priqueue_offer returns the zero-based position at which
\* the element is stored, so that priqueue_at of the returned index is the
\* element just inserted, and it returns 0 exactly when the element has
\* become the new head of the queue.
\* ---------------------------------------------------------------------
InsertReturnsIndex ==
    ev.op = "offer" =>
      /\ priqueue_at(m_front, m_size, ev.ret) = ev.ptr
      /\ ev.ret = 0 <=> m_front = <<ev.ptr>> \o ev.old.front

\* ---------------------------------------------------------------------
\* C15 as stated: for every index >= size, the case index = size and the
\* empty queue included, priqueue_at and priqueue_remove_at return NULL
\* without faulting and leave the list and the size as they found them.
\* ---------------------------------------------------------------------
OutOfRangeAccess ==
    (ev.op \in {"at", "remove_at"} /\ ev.index >= ev.old.size) =>
      /\ ~ev.ub
      /\ ev.ret = NULL
      /\ m_front = ev.old.front
      /\ m_size = ev.old.size

\* ---------------------------------------------------------------------
\* C16 as stated: priqueue_remove(ptr) removes every stored element that
\* is the pointer ptr itself and no other element (an element for which
\* the comparator returns 0 but which is a different job stays), keeps the
\* remaining elements in their order, and returns the number removed.
\* ---------------------------------------------------------------------
RemoveByIdentity ==
    ev.op = "remove" =>
      LET Other(x) == x # ev.ptr
          hits == {p \in 1..Len(ev.old.front) : ev.old.front[p] = ev.ptr}
      IN  /\ m_front = SelectSeq(ev.old.front, Other)
          /\ ev.ret = Cardinality(hits)

\* ---------------------------------------------------------------------
\* C17 as stated: after any mutating call (priqueue_offer, priqueue_poll,
\* priqueue_remove_at, priqueue_remove, priqueue_destroy) the size that
\* priqueue_size returns is the number of elements stored in the list; it
\* is never negative, and it is 0 after priqueue_destroy.
\* ---------------------------------------------------------------------
SizeAccuracy ==
    (ev.op \in {"offer", "poll", "remove_at", "remove", "destroy"} /\ ~ev.ub) =>
      /\ m_size = Len(m_front)
      /\ m_size >= 0
      /\ ev.op = "destroy" => m_size = 0

\* ---------------------------------------------------------------------
\* C18: under PSJF and PPRI, after every handler returns, no job of the
\* waiting queue compares strictly better (comparer < 0, on the remaining
\* times as they stand) than a job that occupies a core.
\* ---------------------------------------------------------------------
PreemptivePriority ==
    scheme \in {"PSJF", "PPRI"} =>
      \A p \in 1..Len(m_front) : \A i \in Cores :
         active_cores[i] # NULL =>
           ~(Compare(comparer, heap[m_front[p]], heap[active_cores[i]]) < 0)

\* a preemption: the displaced job now heads the queue and compares
\* strictly worse than the job that took its core
PreemptivePriorityWitness ==
    /\ scheme \in {"PSJF", "PPRI"}
    /\ ev.op = "new_job"
    /\ OldAllBusy
    /\ ev.ret # NONE
    /\ m_front # <<>>
    /\ m_front[1] = ev.old.cores[ev.ret]
    /\ active_cores[ev.ret] = ev.job_number
    /\ Compare(comparer, heap[ev.job_number], heap[m_front[1]]) < 0

\* ---------------------------------------------------------------------
\* C19: after every handler returns, under every scheme, jobs wait in the
\* queue only while every core holds a job: no core is idle while a job
\* waits.
\* ---------------------------------------------------------------------
WorkConservation ==
    m_front # <<>> => \A i \in Cores : active_cores[i] # NULL

\* a job leaves its core, the head of the queue takes the core at once,
\* and another job stays in the queue
WorkConservationWitness ==
    /\ ev.op = "job_finished"
    /\ ev.old.front # <<>>
    /\ active_cores[ev.core_id] = ev.old.front[1]
    /\ m_front # <<>>

\* ---------------------------------------------------------------------
\* C20: under PSJF and PPRI, when an arrival displaces a job, no job left
\* running on another core compares strictly worse than the displaced job,
\* and every core of lower index held a job strictly better than the
\* displaced one: of several worst jobs that tie, the one on the
\* lowest-indexed core is displaced.
\* ---------------------------------------------------------------------
EvictedIsWorst ==
    (/\ ev.op = "new_job"
     /\ scheme \in {"PSJF", "PPRI"}
     /\ OldAllBusy
     /\ ev.ret # NONE)
    => LET d == ev.old.cores[ev.ret]
       IN  /\ \A i \in Cores \ {ev.ret} :
                 /\ active_cores[i] = ev.old.cores[i]
                 /\ ~(Compare(comparer, heap[active_cores[i]], heap[d]) > 0)
           /\ \A i \in Cores :
                 i < ev.ret =>
                   Compare(comparer, heap[ev.old.cores[i]], heap[d]) < 0

\* the new job beats the jobs of both cores and takes the second core,
\* whose job is strictly worse than the job of the first
EvictedIsWorstWitness ==
    /\ ev.op = "new_job"
    /\ scheme \in {"PSJF", "PPRI"}
    /\ num_cores = 2
    /\ OldAllBusy
    /\ BeatsCore(0)
    /\ BeatsCore(1)
    /\ ev.ret = 1
    /\ Compare(comparer, heap[active_cores[0]], heap[ev.old.cores[1]]) < 0

====
